---- MODULE Spec2Model ----
(***************************************************************************)
(* Model of the built-in word display subsystem (words_display.c /         *)
(* words_display.h): the TSV parser, the lifecycle (Init / Shutdown), the  *)
(* rotation (Next / Tick) and the bounded formatter (FormatSuffix).        *)
(*                                                                         *)
(* Wide strings are sequences of characters; a character is a one-token    *)
(* string.  The resource buffer is modelled after its UTF-8 -> wide        *)
(* conversion (the model's characters are all single code units, for which *)
(* the conversion maps unit to unit).  Memory allocation is assumed to     *)
(* succeed.                                                                *)
(***************************************************************************)
EXTENDS Integers, Sequences, FiniteSets, TLC

\* ------------------------------------------------------------------ bounds
MaxRows      == 11   \* rows of a parser test buffer: 0..MaxRows
MaxRowLen    == 2    \* characters of the varied row of a parser test buffer
MaxWords     == 2    \* usable rows of a lifecycle buffer: 0..MaxWords
MaxTickSteps == 2    \* tick readings: 0..MaxTickSteps half-seconds past each base
MaxIntervalSec == 1  \* configured switch intervals: -1..MaxIntervalSec (and the default)
MaxFieldLen  == 2    \* characters of each field of a formatter test entry
MaxOutChars  == 6    \* output capacities: 0..MaxOutChars
MaxCnLen     == 2    \* configured translation limits: 0..MaxCnLen (and the default)

\* ------------------------------------------------------- program constants
MinLines        == 10    \* if (lines < 10)
MaxFields       == 4     \* wchar_t* fields[4]
MsPerSec        == 1000  \* WORD_SWITCH_INTERVAL_SEC * 1000
CnHardCap       == 240   \* if (copy > 240) copy = 240
DefaultInterval == 20    \* int WORD_SWITCH_INTERVAL_SEC = 20
DefaultCnMaxLen == 10    \* int WORD_CHINESE_MAX_LEN = 10

\* -------------------------------------------------------------- characters
SP  == "SP"
TAB == "TAB"
CR  == "CR"
LF  == "LF"
MIDDOT   == "MIDDOT"
ELLIPSIS == "ELLIPSIS"
LBRACKET == "["
RBRACKET == "]"

NULL == <<>>   \* g_words == NULL: no entry array (a stored array has count >= 1 entries)

Min(a, b) == IF a < b THEN a ELSE b
Max(a, b) == IF a > b THEN a ELSE b

\* ------------------------------------------------------------------- DWORD
\* A DWORD is 32 bits wide: the record [hi, lo] of its two 16-bit halves, the
\* value being hi * 2^16 + lo (TLC's integers are 32-bit and cannot hold 2^32).
Half == 2^16

\* the DWORD of an integer 0 <= n < 2^31
ToDword(n) == [hi |-> n \div Half, lo |-> n % Half]

\* a + b modulo 2^32
DwordAdd(a, b) ==
    [hi |-> (a.hi + b.hi + ((a.lo + b.lo) \div Half)) % Half,
     lo |-> (a.lo + b.lo) % Half]

\* unsigned a >= b
DwordGe(a, b) == a.hi > b.hi \/ (a.hi = b.hi /\ a.lo >= b.lo)

\* a % n for an integer 0 < n < 2^15
DwordRem(a, n) == ((a.hi % n) * (Half % n) + (a.lo % n)) % n

\* ----------------------------------------------------------------- trimming
\* the characters TrimWideInPlace strips from the end of a field
TrailingTrimSet == {SP, TAB, CR, LF}
\* the characters TrimWideInPlace strips from the start of a field
LeadingTrimSet == {SP, TAB}

RECURSIVE TrimTrailing(_)
TrimTrailing(s) ==
    IF Len(s) > 0 /\ s[Len(s)] \in TrailingTrimSet
    THEN TrimTrailing(SubSeq(s, 1, Len(s) - 1))
    ELSE s

RECURSIVE TrimLeading(_)
TrimLeading(s) ==
    IF Len(s) > 0 /\ Head(s) \in LeadingTrimSet
    THEN TrimLeading(Tail(s))
    ELSE s

\* trailing characters first, then leading ones
TrimWideInPlace(s) == TrimLeading(TrimTrailing(s))

\* ------------------------------------------------------------------ parsing
\* number of characters of s before the first d (all of s when d is absent)
PrefixLen(s, d) ==
    IF \E i \in 1..Len(s) : s[i] = d
    THEN (CHOOSE i \in 1..Len(s) : s[i] = d /\ \A j \in 1..(i - 1) : s[j] # d) - 1
    ELSE Len(s)

\* for (p = wide; *p; p++) if (*p == L'\n') lines++;
CountLines(wide) == Cardinality({i \in 1..Len(wide) : wide[i] = LF})

\* the successive tokens wcstok_s yields: the maximal non-empty runs free of delim
RECURSIVE wcstok_s(_, _)
wcstok_s(s, delim) ==
    IF s = <<>> THEN <<>>
    ELSE IF Head(s) = delim THEN wcstok_s(Tail(s), delim)
    ELSE LET n == PrefixLen(s, delim)
         IN  <<SubSeq(s, 1, n)>> \o wcstok_s(SubSeq(s, n + 2, Len(s)), delim)

\* the field loop: a tab starts a new field while fewer than MaxFields have
\* started; fi is the number of fields started so far, p the rest of the line
RECURSIVE SplitFields(_, _)
SplitFields(p, fi) ==
    IF fi >= MaxFields \/ PrefixLen(p, TAB) = Len(p)
    THEN <<p>>
    ELSE LET n == PrefixLen(p, TAB)
         IN  <<SubSeq(p, 1, n)>> \o SplitFields(SubSeq(p, n + 2, Len(p)), fi + 1)

\* Below, CHOOSE r \in {F(x) : x \in {e}} : TRUE is F(e) with e evaluated once.

\* the entry stored from the fields f of one line: each field trimmed, missing
\* trailing fields empty
FieldsEntry(f) ==
    [name  |-> TrimWideInPlace(f[1]),
     uk    |-> IF Len(f) > 1 THEN TrimWideInPlace(f[2]) ELSE <<>>,
     us    |-> IF Len(f) > 2 THEN TrimWideInPlace(f[3]) ELSE <<>>,
     trans |-> IF Len(f) > 3 THEN TrimWideInPlace(f[4]) ELSE <<>>]

LineEntry(line) ==
    CHOOSE e \in {FieldsEntry(f) : f \in {SplitFields(line, 1)}} : TRUE

\* if (fields[0][0] != 0): the entry is stored
KeepEntry(e, rest) == IF e.name # <<>> THEN <<e>> \o rest ELSE rest

\* the while (line) loop: one entry per line whose trimmed name is not empty
RECURSIVE ParseLines(_)
ParseLines(lines) ==
    IF lines = <<>> THEN <<>>
    ELSE CHOOSE arr \in
             {KeepEntry(e, ParseLines(Tail(lines))) : e \in {LineEntry(Head(lines))}} : TRUE

\* if (count <= 0) fail, else publish the array with index 0
StoreWords(g, arr) ==
    IF Len(arr) <= 0
    THEN [ok |-> FALSE, g |-> g]
    ELSE [ok |-> TRUE,
          g  |-> [g EXCEPT !.words = arr, !.count = Len(arr), !.idx = 0]]

\* g is the record of the module's statics; the result is [ok, g]
ParseTsvToWords(g, wide) ==
    IF CountLines(wide) < MinLines
    THEN [ok |-> FALSE, g |-> g]
    ELSE CHOOSE r \in
             {StoreWords(g, arr) : arr \in {ParseLines(wcstok_s(wide, LF))}} : TRUE

\* ---------------------------------------------------------------- lifecycle
(***************************************************************************)
(* The module's statics as one record g:                                   *)
(*   words, count, idx, next, init  = g_words, g_wordCount,                *)
(*       g_currentIndex, g_nextSwitchTick, g_initialized                   *)
(* and history fields, written where the code writes the statics:          *)
(*   armedAt, armedMs = the tick and the milliseconds of the last          *)
(*       assignment to g_nextSwitchTick;                                   *)
(*   failed   = an initialization attempt failed since the last Shutdown;  *)
(*   resource = the resource outcome of the last attempt.                  *)
(* A resource outcome is [found, data]: FindResource/LoadResource may      *)
(* fail, and data is the buffer's text.                                    *)
(***************************************************************************)
NotFound == [found |-> FALSE, data |-> <<>>]

\* FALSE when the resource is missing or zero-length
LoadResourceToUtf8Buffer(res) == res.found /\ Len(res.data) # 0

FreeWords(g) ==
    IF g.words = NULL THEN g
    ELSE [g EXCEPT !.words = NULL, !.count = 0, !.idx = -1]

\* the milliseconds Init adds to the tick: interval > 0 ? interval * 1000 : 0
\* (the configured intervals are small: the int product does not overflow)
InitArmMs(interval) == IF interval > 0 THEN ToDword(interval * MsPerSec) ELSE ToDword(0)

\* Init after the parse returned p: the start index and the first deadline
InitParsed(p, tick, interval) ==
    IF ~p.ok
    THEN [ret |-> FALSE, g |-> [p.g EXCEPT !.failed = TRUE]]
    ELSE [ret |-> TRUE,
          g |-> [p.g EXCEPT
                   !.idx  = IF p.g.count > 0 THEN DwordRem(tick, p.g.count) ELSE @,
                   !.next = DwordAdd(tick, InitArmMs(interval)),
                   !.armedAt = tick,
                   !.armedMs = InitArmMs(interval)]]

\* the flag is set before the load is attempted
WordsDisplay_Init(g, res, tick, interval) ==
    IF g.init THEN [ret |-> TRUE, g |-> g]
    ELSE IF ~LoadResourceToUtf8Buffer(res)
    THEN [ret |-> FALSE,
          g |-> [g EXCEPT !.init = TRUE, !.resource = res, !.failed = TRUE]]
    ELSE CHOOSE r \in
             {InitParsed(p, tick, interval) :
                 p \in {ParseTsvToWords([g EXCEPT !.init = TRUE, !.resource = res],
                                        res.data)}} : TRUE

WordsDisplay_Shutdown(g) ==
    [FreeWords(g) EXCEPT !.init = FALSE, !.failed = FALSE, !.resource = NotFound]

\* if (!g_initialized) WordsDisplay_Init();
LazyInit(g, res, tick, interval) ==
    IF ~g.init THEN WordsDisplay_Init(g, res, tick, interval).g ELSE g

\* !g_words || g_wordCount <= 0
StoreEmpty(g) == g.words = NULL \/ g.count <= 0

\* ClampIndex wrapping one past the end: idx > count for idx >= count
ClampIndex_WrapLate(idx, count) ==
    LET i1 == IF idx < 0 THEN 0 ELSE idx
    IN  IF i1 > count THEN 0 ELSE i1

\* the index SetCurrentIndex settles on
ClampIndex(idx, count) ==
    LET i1 == IF idx < 0 THEN 0 ELSE idx
    IN  IF i1 >= count THEN 0 ELSE i1

\* SetCurrentIndex reporting a change whenever the store has entries
SetCurrentIndex_AlwaysChanged(g, idx) ==
    IF StoreEmpty(g) THEN [changed |-> FALSE, g |-> g]
    ELSE [changed |-> TRUE, g |-> [g EXCEPT !.idx = ClampIndex(idx, g.count)]]

SetCurrentIndex(g, idx) ==
    IF StoreEmpty(g) THEN [changed |-> FALSE, g |-> g]
    ELSE LET i == ClampIndex(idx, g.count)
         IN  IF g.idx # i
             THEN [changed |-> TRUE, g |-> [g EXCEPT !.idx = i]]
             ELSE [changed |-> FALSE, g |-> g]

\* now + (DWORD)WORD_SWITCH_INTERVAL_SEC * 1000
Rearm(g, now, interval) ==
    [g EXCEPT !.next = DwordAdd(now, ToDword(interval * MsPerSec)),
              !.armedAt = now,
              !.armedMs = ToDword(interval * MsPerSec)]

\* Next after SetCurrentIndex returned s
NextAdvanced(s, now, interval) ==
    [ret |-> s.changed,
     g   |-> IF interval > 0 THEN Rearm(s.g, now, interval) ELSE s.g]

\* NextInitialized without the empty-store return
NextInitialized_NoEmptyCheck(g1, now, interval) ==
    CHOOSE r \in
        {NextAdvanced(s, now, interval) : s \in {SetCurrentIndex(g1, g1.idx + 1)}} : TRUE

\* Next after the lazy Init left the statics g1
NextInitialized(g1, now, interval) ==
    IF StoreEmpty(g1) THEN [ret |-> FALSE, g |-> g1]
    ELSE CHOOSE r \in
             {NextAdvanced(s, now, interval) : s \in {SetCurrentIndex(g1, g1.idx + 1)}} : TRUE

\* tick is the reading of a lazy Init, now the reading of Next itself
WordsDisplay_Next(g, res, tick, now, interval) ==
    CHOOSE r \in
        {NextInitialized(g1, now, interval) : g1 \in {LazyInit(g, res, tick, interval)}} : TRUE

\* AutoSwitchOff letting interval 0 through
AutoSwitchOff_NegativeOnly(interval) == interval < 0

\* WORD_SWITCH_INTERVAL_SEC <= 0
AutoSwitchOff(interval) == interval <= 0

\* TickDue with a strict comparison
TickDue_Strict(nowTick, deadline) == ~DwordGe(deadline, nowTick)

\* nowTick >= g_nextSwitchTick
TickDue(nowTick, deadline) == DwordGe(nowTick, deadline)

\* Tick after SetCurrentIndex returned s
TickAdvanced(s, now, interval) ==
    [ret |-> s.changed, g |-> Rearm(s.g, now, interval)]

\* Tick after the lazy Init left the statics g1
TickInitialized(g1, now, interval) ==
    IF StoreEmpty(g1) THEN [ret |-> FALSE, g |-> g1]
    ELSE IF AutoSwitchOff(interval) THEN [ret |-> FALSE, g |-> g1]
    ELSE IF TickDue(now, g1.next)
    THEN CHOOSE r \in
             {TickAdvanced(s, now, interval) : s \in {SetCurrentIndex(g1, g1.idx + 1)}} : TRUE
    ELSE [ret |-> FALSE, g |-> g1]

WordsDisplay_Tick(g, res, tick, now, enabled, interval) ==
    IF ~enabled THEN [ret |-> FALSE, g |-> g]
    ELSE CHOOSE r \in
             {TickInitialized(g1, now, interval) :
                 g1 \in {LazyInit(g, res, tick, interval)}} : TRUE

\* ---------------------------------------------------------------- formatter
\* AppendWithLimit forgetting the terminator's slot
AppendWithLimit_NoTerminatorSlot(out, outChars, s) ==
    IF outChars = 0 THEN out
    ELSE IF Len(out) >= outChars THEN out
    ELSE out \o SubSeq(s, 1, Min(Len(s), outChars - Len(out)))

\* wcsncat of at most outChars - 1 - cur characters
AppendWithLimit(out, outChars, s) ==
    IF outChars = 0 THEN out
    ELSE IF Len(out) >= outChars - 1 THEN out
    ELSE out \o SubSeq(s, 1, Min(Len(s), outChars - 1 - Len(out)))

\* the strings AppendCnTruncated appends, in order
CnPieces(cn, max) ==
    IF cn = <<>> THEN <<>>
    ELSE IF max <= 0 THEN <<cn>>
    ELSE IF Len(cn) <= max THEN <<cn>>
    ELSE <<SubSeq(cn, 1, Min(max, CnHardCap)), <<ELLIPSIS>>>>

\* " [" + p + "]" when p is not empty
Bracketed(p) ==
    IF p # <<>> THEN <<<<SP, LBRACKET>>, p, <<RBRACKET>>>> ELSE <<>>

\* cfg is [showPhonetic, mode, showChinese, cnMaxLen]
PhoneticPieces(e, cfg) ==
    IF ~cfg.showPhonetic THEN <<>>
    ELSE IF cfg.mode = 2 THEN Bracketed(e.uk) \o Bracketed(e.us)
    ELSE IF cfg.mode = 1 THEN Bracketed(e.us)
    ELSE Bracketed(e.uk)

TransPieces(e, cfg) ==
    IF cfg.showChinese /\ e.trans # <<>>
    THEN <<<<SP, MIDDOT, SP>>>> \o CnPieces(e.trans, cfg.cnMaxLen)
    ELSE <<>>

\* every string FormatSuffix appends for entry e, in order
SuffixPieces(e, cfg) ==
    <<<<SP, SP>>, e.name>> \o PhoneticPieces(e, cfg) \o TransPieces(e, cfg)

\* the buffer's content after each successive append (o, the buffer after the
\* first append, is bound to its value once)
RECURSIVE AppendSteps(_, _, _)
AppendSteps(out, outChars, pieces) ==
    IF pieces = <<>> THEN <<>>
    ELSE CHOOSE steps \in
             {<<o>> \o AppendSteps(o, outChars, Tail(pieces)) :
                 o \in {AppendWithLimit(out, outChars, Head(pieces))}} : TRUE

\* the appends of FormatSuffix for the current entry e
FormatEntry(e, outChars, cfg) ==
    CHOOSE steps \in
        {AppendSteps(<<>>, outChars, pieces) : pieces \in {SuffixPieces(e, cfg)}} : TRUE

\* FormatSuffix after the lazy Init left the statics g1
FormatInitialized(g1, outChars, cfg) ==
    IF StoreEmpty(g1) \/ g1.idx < 0 \/ g1.idx >= g1.count
    THEN [g |-> g1, steps |-> <<<<>>>>]
    ELSE [g |-> g1,
          steps |-> <<<<>>>> \o FormatEntry(g1.words[g1.idx + 1], outChars, cfg)]

\* [g, steps]: steps is the buffer's content after out[0] = 0 and after each
\* append (empty when the call returns before touching the buffer)
WordsDisplay_FormatSuffix(g, res, tick, outChars, enabled, interval, cfg) ==
    IF outChars = 0 THEN [g |-> g, steps |-> <<>>]
    ELSE IF ~enabled THEN [g |-> g, steps |-> <<<<>>>>]
    ELSE CHOOSE r \in
             {FormatInitialized(g1, outChars, cfg) :
                 g1 \in {LazyInit(g, res, tick, interval)}} : TRUE

\* -------------------------------------------------------------------- state
VARIABLES
    g_words, g_wordCount, g_currentIndex, g_nextSwitchTick, g_initialized,
    WORD_DISPLAY_ENABLED, WORD_SWITCH_INTERVAL_SEC,
    WORD_SHOW_PHONETIC, WORD_PHONETIC_MODE, WORD_SHOW_CHINESE, WORD_CHINESE_MAX_LEN,
    armedAt, armedMs, initFailed, resource,
    op, ret, nowTick, out, outChars, outPeak

statics == <<g_words, g_wordCount, g_currentIndex, g_nextSwitchTick, g_initialized>>
history == <<armedAt, armedMs, initFailed, resource>>
switchConfig == <<WORD_DISPLAY_ENABLED, WORD_SWITCH_INTERVAL_SEC>>
formatConfig == <<WORD_SHOW_PHONETIC, WORD_PHONETIC_MODE, WORD_SHOW_CHINESE, WORD_CHINESE_MAX_LEN>>
config == <<switchConfig, formatConfig>>
\* the last call: its name, return value, tick (the argument of Tick, the
\* GetTickCount reading of Next), and what FormatSuffix left in the buffer
lastCall == <<op, ret, nowTick, out, outChars, outPeak>>
vars == <<statics, history, config, lastCall>>

G == [words |-> g_words, count |-> g_wordCount, idx |-> g_currentIndex,
      next |-> g_nextSwitchTick, init |-> g_initialized,
      armedAt |-> armedAt, armedMs |-> armedMs,
      failed |-> initFailed, resource |-> resource]

SetG(g) ==
    /\ g_words' = g.words
    /\ g_wordCount' = g.count
    /\ g_currentIndex' = g.idx
    /\ g_nextSwitchTick' = g.next
    /\ g_initialized' = g.init
    /\ armedAt' = g.armedAt
    /\ armedMs' = g.armedMs
    /\ initFailed' = g.failed
    /\ resource' = g.resource

Cfg == [showPhonetic |-> WORD_SHOW_PHONETIC, mode |-> WORD_PHONETIC_MODE,
        showChinese |-> WORD_SHOW_CHINESE, cnMaxLen |-> WORD_CHINESE_MAX_LEN]

\* a call that is not FormatSuffix leaves no buffer
NoBuffer == out' = <<>> /\ outChars' = 0 /\ outPeak' = 0

\* the static initializers of words_display.c
Init ==
    /\ g_words = NULL
    /\ g_wordCount = 0
    /\ g_currentIndex = -1
    /\ g_nextSwitchTick = ToDword(0)
    /\ g_initialized = FALSE
    /\ WORD_DISPLAY_ENABLED = FALSE
    /\ WORD_SWITCH_INTERVAL_SEC = DefaultInterval
    /\ WORD_SHOW_PHONETIC = TRUE
    /\ WORD_PHONETIC_MODE = 0
    /\ WORD_SHOW_CHINESE = TRUE
    /\ WORD_CHINESE_MAX_LEN = DefaultCnMaxLen
    /\ armedAt = ToDword(0)
    /\ armedMs = ToDword(0)
    /\ initFailed = FALSE
    /\ resource = NotFound
    /\ op = "none"
    /\ ret = FALSE
    /\ nowTick = ToDword(0)
    /\ out = <<>>
    /\ outChars = 0
    /\ outPeak = 0

\* ------------------------------------------------------------------- inputs
\* tick readings: around 0 and around the wrap of the 32-bit counter
Ticks ==
    {DwordAdd(b, ToDword(k * (MsPerSec \div 2))) :
        b \in {ToDword(0), [hi |-> Half - 1, lo |-> Half - MsPerSec]}, k \in 0..MaxTickSteps}

Intervals == (-1..MaxIntervalSec) \cup {DefaultInterval}
CnLimits == (0..MaxCnLen) \cup {DefaultCnMaxLen}
Capacities == 0..MaxOutChars

\* n copies of character c
Rep(c, n) == [i \in 1..n |-> c]

\* all strings over alphabet A of at most n characters
StringsUpTo(A, n) == UNION {[1..k -> A] : k \in 0..n}

\* the text of rows: each row but the last is followed by a newline, the last
\* one only when trailing
RECURSIVE Buffer(_, _)
Buffer(rows, trailing) ==
    IF rows = <<>> THEN <<>>
    ELSE IF Len(rows) = 1 THEN Head(rows) \o (IF trailing THEN <<LF>> ELSE <<>>)
    ELSE Head(rows) \o <<LF>> \o Buffer(Tail(rows), trailing)

Found(data) == [found |-> TRUE, data |-> data]

\* lifecycle resources: missing, zero-length, one line short, no usable row,
\* and k usable rows (k = 1..MaxWords) among MinLines lines
LifeRow(i) == Rep("a", i) \o <<TAB, "k", TAB, "s", TAB, "t">>
LifeBuffer(k, m) == Buffer([i \in 1..m |-> IF i <= k THEN LifeRow(i) ELSE <<>>], TRUE)
LifeResources ==
    {NotFound, Found(<<>>), Found(LifeBuffer(1, MinLines - 1)), Found(LifeBuffer(0, MinLines))}
    \cup {Found(LifeBuffer(k, MinLines + k - 1)) : k \in 1..MaxWords}

\* parser resources: n rows, the first one any string of at most MaxRowLen
\* characters and the others "a", with and without a final newline
ParseAlphabet == {"a", SP, TAB, CR}
ParseResources ==
    {Found(Buffer([i \in 1..n |-> IF i = 1 THEN r ELSE <<"a">>], nl)) :
        n \in 0..MaxRows, r \in StringsUpTo(ParseAlphabet, MaxRowLen), nl \in BOOLEAN}

\* formatter resources: one row of four fields of every length, then blank lines
FormatRow(a, b, c, d) ==
    Rep("n", a) \o <<TAB>> \o Rep("k", b) \o <<TAB>> \o Rep("s", c) \o <<TAB>> \o Rep("t", d)
FormatResources ==
    {Found(Buffer([i \in 1..MinLines |-> IF i = 1 THEN FormatRow(a, b, c, d) ELSE <<>>], TRUE)) :
        a \in 1..MaxFieldLen, b \in 0..1, c \in 0..1, d \in 0..(MaxFieldLen + 1)}

\* ------------------------------------------------------------------ actions
\* R is the set of resource outcomes, T the set of tick readings
CallInit(res, tick) ==
    \E r \in {WordsDisplay_Init(G, res, tick, WORD_SWITCH_INTERVAL_SEC)} :
        /\ SetG(r.g)
        /\ op' = "Init" /\ ret' = r.ret /\ nowTick' = ToDword(0)
        /\ NoBuffer
        /\ UNCHANGED config

ApiInit(R, T) ==
    IF g_initialized THEN CallInit(NotFound, ToDword(0))
    ELSE \E res \in R, tick \in T : CallInit(res, tick)

ApiShutdown ==
    /\ \E g \in {WordsDisplay_Shutdown(G)} : SetG(g)
    /\ op' = "Shutdown" /\ ret' = FALSE /\ nowTick' = ToDword(0)
    /\ NoBuffer
    /\ UNCHANGED config

CallNext(res, tick, now) ==
    \E r \in {WordsDisplay_Next(G, res, tick, now, WORD_SWITCH_INTERVAL_SEC)} :
        /\ SetG(r.g)
        /\ op' = "Next" /\ ret' = r.ret /\ nowTick' = now
        /\ NoBuffer
        /\ UNCHANGED config

ApiNext(R, T) ==
    \E now \in T :
        IF g_initialized THEN CallNext(NotFound, ToDword(0), now)
        ELSE \E res \in R, tick \in T : CallNext(res, tick, now)

CallTick(res, tick, now) ==
    \E r \in {WordsDisplay_Tick(G, res, tick, now,
                                 WORD_DISPLAY_ENABLED, WORD_SWITCH_INTERVAL_SEC)} :
        /\ SetG(r.g)
        /\ op' = "Tick" /\ ret' = r.ret /\ nowTick' = now
        /\ NoBuffer
        /\ UNCHANGED config

ApiTick(R, T) ==
    \E now \in T :
        IF g_initialized \/ ~WORD_DISPLAY_ENABLED THEN CallTick(NotFound, ToDword(0), now)
        ELSE \E res \in R, tick \in T : CallTick(res, tick, now)

RECURSIVE PeakLen(_)
PeakLen(steps) ==
    IF steps = <<>> THEN 0 ELSE Max(Len(Head(steps)), PeakLen(Tail(steps)))

CallFormatSuffix(res, tick, cap) ==
    \E r \in {WordsDisplay_FormatSuffix(G, res, tick, cap,
                                         WORD_DISPLAY_ENABLED, WORD_SWITCH_INTERVAL_SEC, Cfg)} :
        /\ SetG(r.g)
        /\ op' = "FormatSuffix" /\ ret' = FALSE /\ nowTick' = ToDword(0)
        /\ out' = IF r.steps = <<>> THEN <<>> ELSE r.steps[Len(r.steps)]
        /\ outChars' = cap
        /\ outPeak' = PeakLen(r.steps)
        /\ UNCHANGED config

ApiFormatSuffix(R, T, C) ==
    \E cap \in C :
        IF g_initialized \/ ~WORD_DISPLAY_ENABLED \/ cap = 0
        THEN CallFormatSuffix(NotFound, ToDword(0), cap)
        ELSE \E res \in R, tick \in T : CallFormatSuffix(res, tick, cap)

\* the host writes the configuration globals
ConfigDone ==
    /\ op' = "Config" /\ ret' = FALSE /\ nowTick' = ToDword(0)
    /\ NoBuffer
    /\ UNCHANGED <<statics, history>>

SetEnabled ==
    /\ WORD_DISPLAY_ENABLED' = ~WORD_DISPLAY_ENABLED
    /\ UNCHANGED <<WORD_SWITCH_INTERVAL_SEC, formatConfig>>
    /\ ConfigDone

SetInterval ==
    /\ \E i \in Intervals : WORD_SWITCH_INTERVAL_SEC' = i
    /\ UNCHANGED <<WORD_DISPLAY_ENABLED, formatConfig>>
    /\ ConfigDone

SetFormatConfig ==
    /\ \/ /\ WORD_SHOW_PHONETIC' = ~WORD_SHOW_PHONETIC
          /\ UNCHANGED <<WORD_PHONETIC_MODE, WORD_SHOW_CHINESE, WORD_CHINESE_MAX_LEN>>
       \/ /\ \E m \in 0..2 : WORD_PHONETIC_MODE' = m
          /\ UNCHANGED <<WORD_SHOW_PHONETIC, WORD_SHOW_CHINESE, WORD_CHINESE_MAX_LEN>>
       \/ /\ WORD_SHOW_CHINESE' = ~WORD_SHOW_CHINESE
          /\ UNCHANGED <<WORD_SHOW_PHONETIC, WORD_PHONETIC_MODE, WORD_CHINESE_MAX_LEN>>
       \/ /\ \E n \in CnLimits : WORD_CHINESE_MAX_LEN' = n
          /\ UNCHANGED <<WORD_SHOW_PHONETIC, WORD_PHONETIC_MODE, WORD_SHOW_CHINESE>>
    /\ UNCHANGED switchConfig
    /\ ConfigDone

\* ----------------------------------------------------------- specifications
\* the lifecycle and rotation, under every switch configuration
LifeInit == ApiInit(LifeResources, Ticks)
LifeNext == ApiNext(LifeResources, Ticks)
LifeTick == ApiTick(LifeResources, Ticks)
LifeFormatSuffix == ApiFormatSuffix(LifeResources, Ticks, {0, 1, MaxOutChars})

Next ==
    \/ LifeInit
    \/ ApiShutdown
    \/ LifeNext
    \/ LifeTick
    \/ LifeFormatSuffix
    \/ SetEnabled
    \/ SetInterval

Spec == Init /\ [][Next]_vars

\* the parser, on every parser resource
ParseInit == ApiInit(ParseResources, {ToDword(0)})

NextParse ==
    \/ ParseInit
    \/ ApiShutdown

SpecParse == Init /\ [][NextParse]_vars

\* the formatter, on every formatter resource, capacity and format configuration
FormatInit == ApiInit(FormatResources, {ToDword(0)})
FormatFormatSuffix == ApiFormatSuffix(FormatResources, {ToDword(0)}, Capacities)

NextFormat ==
    \/ FormatInit
    \/ ApiShutdown
    \/ FormatFormatSuffix
    \/ SetEnabled
    \/ SetFormatConfig

SpecFormat == Init /\ [][NextFormat]_vars

\* ==================================================================== claims
InRange == 0 <= g_currentIndex /\ g_currentIndex < g_wordCount

\* WORD_SWITCH_INTERVAL_SEC * 1000 as a DWORD
IntervalMs == ToDword(WORD_SWITCH_INTERVAL_SEC * MsPerSec)

\* a - b modulo 2^32
DwordSub(a, b) ==
    DwordAdd(DwordAdd(a, [hi |-> Half - 1 - b.hi, lo |-> Half - 1 - b.lo]), ToDword(1))

\* C1: for every capacity outChars >= 1, every entry and every configuration,
\* the buffer holds at most outChars - 1 characters (before its terminator)
\* after each append of FormatSuffix and at its return.
C1_BufferBound ==
    (op = "FormatSuffix" /\ outChars >= 1) =>
        (outPeak <= outChars - 1 /\ Len(out) <= outChars - 1)

\* a 5-character buffer filled to its 4 characters, the " [" of the phonetic
\* part cut after its first character
C1_Witness ==
    /\ op = "FormatSuffix" /\ outChars = 5
    /\ g_wordCount = 1 /\ Len(g_words[1].name) = 1 /\ g_words[1].uk # <<>>
    /\ WORD_SHOW_PHONETIC /\ WORD_PHONETIC_MODE = 0
    /\ out = <<SP, SP>> \o g_words[1].name \o <<SP>>

\* C2: whenever the store holds entries the index is in [0, count); when it
\* holds none the index is the sentinel -1.
C2_IndexInRange ==
    /\ g_wordCount = Len(g_words)
    /\ g_wordCount >= 1 => InRange
    /\ g_wordCount = 0 => g_currentIndex = -1

\* Next wrapped the index from the last entry to the first
C2_Witness ==
    op = "Next" /\ ret /\ g_wordCount >= 2 /\ g_currentIndex = 0

\* C3: whenever Init returns success the store holds at least one entry with
\* the index in [0, count), on the first and on every repeated call.
C3_InitSuccessLoaded ==
    (op = "Init" /\ ret) => (g_wordCount >= 1 /\ InRange)

\* C4: after a failed initialization attempt the store holds no entries, the
\* index is -1, and until Shutdown every Next and Tick returns false and every
\* FormatSuffix writes the empty string, none of them changing the entries, the
\* index or the deadline.
C4_FailedStoreInert ==
    /\ [](initFailed => (g_words = NULL /\ g_wordCount = 0 /\ g_currentIndex = -1))
    /\ [][(initFailed /\ op' \in {"Next", "Tick", "FormatSuffix"}) =>
            /\ UNCHANGED <<g_words, g_wordCount, g_currentIndex, g_nextSwitchTick>>
            /\ initFailed'
            /\ op' \in {"Next", "Tick"} => ret' = FALSE
            /\ op' = "FormatSuffix" => out' = <<>>]_vars

\* a Tick, enabled and with a positive interval, on a store whose parse failed
C4_Witness ==
    /\ initFailed /\ resource.found /\ op = "Tick"
    /\ WORD_DISPLAY_ENABLED /\ WORD_SWITCH_INTERVAL_SEC > 0

\* the lines of a buffer, split on newlines; a final newline ends the last line
NumLines(wide) ==
    CountLines(wide) + (IF wide # <<>> /\ wide[Len(wide)] # LF THEN 1 ELSE 0)

\* C5: a buffer of 9 or fewer lines is rejected, and one of 10 or more lines
\* goes to row filtering (its usable rows are stored) whether or not the last
\* line ends with a newline.
C5_LineFloor ==
    (g_initialized /\ LoadResourceToUtf8Buffer(resource)) =>
        IF NumLines(resource.data) < MinLines
        THEN g_wordCount = 0
        ELSE g_words = ParseLines(wcstok_s(resource.data, LF))

\* C6: enabled, interval > 0, N >= 1 entries at index i, deadline d: Tick(now)
\* with now >= d moves the index to (i + 1) mod N, re-arms the deadline to
\* now + interval * 1000 (in DWORD arithmetic) and returns changed iff N >= 2;
\* with now < d it changes neither and returns no change.
C6_TickStep ==
    [][(op' = "Tick" /\ WORD_DISPLAY_ENABLED /\ WORD_SWITCH_INTERVAL_SEC > 0
            /\ g_wordCount >= 1) =>
        IF DwordGe(nowTick', g_nextSwitchTick)
        THEN /\ g_currentIndex' = (g_currentIndex + 1) % g_wordCount
             /\ g_nextSwitchTick' = DwordAdd(nowTick', IntervalMs)
             /\ ret' = (g_wordCount >= 2)
        ELSE /\ g_currentIndex' = g_currentIndex
             /\ g_nextSwitchTick' = g_nextSwitchTick
             /\ ret' = FALSE]_vars

\* a Tick that advanced and re-armed relative to its own now
C6_Witness ==
    /\ op = "Tick" /\ ret /\ g_wordCount >= 2
    /\ WORD_SWITCH_INTERVAL_SEC > 0
    /\ g_nextSwitchTick = DwordAdd(nowTick, IntervalMs)

\* C7: with the deadline armed at tick t0 with the interval in force, a Tick
\* whose elapsed time (now - t0) mod 2^32 is below interval * 1000 does not
\* advance, and one whose elapsed time is at least that (and below 2^31) does.
C7_WrapSafe ==
    [][(op' = "Tick" /\ WORD_DISPLAY_ENABLED /\ WORD_SWITCH_INTERVAL_SEC > 0
            /\ g_wordCount >= 1 /\ armedMs = IntervalMs) =>
        IF ~DwordGe(DwordSub(nowTick', armedAt), IntervalMs)
        THEN g_currentIndex' = g_currentIndex
        ELSE DwordSub(nowTick', armedAt).hi < Half \div 2 =>
                g_currentIndex' = (g_currentIndex + 1) % g_wordCount]_vars

\* C8: on N >= 1 entries at index i, Next sets the index to (i + 1) mod N
\* whatever the enabled flag and the deadline, returns true iff N >= 2, and
\* re-arms the deadline to now + interval * 1000 when interval > 0, leaving it
\* unchanged otherwise; with no usable entries it returns false.
C8_NextStep ==
    [][op' = "Next" =>
        /\ g_wordCount >= 1 =>
            /\ g_currentIndex' = (g_currentIndex + 1) % g_wordCount
            /\ ret' = (g_wordCount >= 2)
            /\ g_nextSwitchTick' =
                  IF WORD_SWITCH_INTERVAL_SEC > 0
                  THEN DwordAdd(nowTick', IntervalMs)
                  ELSE g_nextSwitchTick
        /\ g_wordCount' = 0 => ret' = FALSE]_vars

\* a Next that wrapped to the first entry with the feature disabled and the
\* deadline not yet reached
C8_Witness ==
    /\ op = "Next" /\ ret /\ g_wordCount >= 2 /\ g_currentIndex = 0
    /\ ~WORD_DISPLAY_ENABLED
    /\ WORD_SWITCH_INTERVAL_SEC > 0
    /\ g_nextSwitchTick = DwordAdd(nowTick, IntervalMs)

\* C9 as stated: Tick with interval <= 0 never changes the index and returns
\* no change, in every store state, initialized or not.
C9_TickOffNeverMoves ==
    [][(op' = "Tick" /\ WORD_SWITCH_INTERVAL_SEC <= 0) =>
        (g_currentIndex' = g_currentIndex /\ ret' = FALSE)]_vars

\* C9 amended: Tick with interval <= 0 always returns no change, and leaves the
\* index alone when the store is already marked initialized or the feature is
\* disabled; enabled on a store not yet marked initialized it runs the lazy
\* Init, which leaves the sentinel (failure) or the start index.
C9_TickOffAmended ==
    [][(op' = "Tick" /\ WORD_SWITCH_INTERVAL_SEC <= 0) =>
        /\ ret' = FALSE
        /\ (g_initialized \/ ~WORD_DISPLAY_ENABLED) =>
              UNCHANGED <<g_currentIndex, g_nextSwitchTick>>
        /\ ~(g_initialized \/ ~WORD_DISPLAY_ENABLED) =>
              /\ g_initialized'
              /\ g_currentIndex' = -1 \/ (0 <= g_currentIndex' /\ g_currentIndex' < g_wordCount')]_vars

\* a Tick at or past the deadline, enabled, interval 0, on a loaded store
C9_Witness ==
    /\ op = "Tick" /\ WORD_DISPLAY_ENABLED /\ WORD_SWITCH_INTERVAL_SEC = 0
    /\ g_wordCount >= 2 /\ DwordGe(nowTick, g_nextSwitchTick)

\* no space, tab, carriage return or newline at either end of s
NoEdgeWhitespace(s) ==
    s = <<>> \/ (s[1] \notin {SP, TAB, CR, LF} /\ s[Len(s)] \notin {SP, TAB, CR, LF})

\* C10: no field of a stored entry begins or ends with a space, tab, carriage
\* return or newline.
C10_FieldsTrimmed ==
    \A i \in 1..Len(g_words) :
        /\ NoEdgeWhitespace(g_words[i].name)
        /\ NoEdgeWhitespace(g_words[i].uk)
        /\ NoEdgeWhitespace(g_words[i].us)
        /\ NoEdgeWhitespace(g_words[i].trans)

====
